---- MODULE Spec2Model ----
(***************************************************************************)
(* Model of FileOrganizer.consolidate_and_dedup (src/main.py) together     *)
(* with the confirmation gate _ask_user and the fingerprinter              *)
(* _calculate_hash.  A path is a pair <<root directory, relative name>>,   *)
(* a file is a record of its content, modification time and readability.   *)
(***************************************************************************)
EXTENDS Integers, Sequences, FiniteSets, TLC

\* ------------------------------------------------------------------ bounds
MaxFiles == 3        \* files present in the trees when the program starts
MaxRequests == 2     \* confirmations one sweep asks for
MaxLines == 2        \* lines of the configuration file

\* ---------------------------------------------------------------- universe
target_dir == "X"
Roots == {"X", "Y1", "Y2"}
Names == {"a", "b"}
Paths == Roots \X Names
Contents == {"c1", "c2"}
\* Two instants: the program only ever compares the times of two files.
Times == {1, 2}
SourceLists == {<<"Y1", "Y2">>, <<"Y1", "X">>}

NoFile == [content |-> "-", mtime |-> 0, readable |-> FALSE]
Files == [content : Contents, mtime : Times, readable : BOOLEAN]
NoPath == <<"-", "-">>
None == "None"
NoStep == [action |-> "-", src |-> NoPath, dst |-> NoPath, outcome |-> "-", out |-> ""]

VARIABLES
    fs,           \* the filesystem: Paths -> Files \cup {NoFile}
    dirs,         \* the root directories that exist
    source_dirs,  \* self.source_dirs
    args_yes,     \* the --yes flag of the command line
    auto_mode,    \* self.auto_mode
    x_index,      \* x_index of consolidate_and_dedup: hash -> path or NoPath
    pc,           \* "start", "scan", "walk", "done", "crashed"
    src_i,        \* position of the loop over self.source_dirs
    files,        \* files of the current os.walk listing not yet visited
    last,         \* what the last step did and what it printed or logged
    second,       \* TRUE in the second invocation of the program
    faulted,      \* a move or delete of a --yes invocation has raised OSError
    fs0,          \* the filesystem when the program was first started
    args,         \* the selector flags of the command line (args of main)
    args_target_dir, \* the target_dir argument of the command line
    mpc,          \* the statement of main that is executed next
    sweep,        \* the method of FileOrganizer that is running, or "-"
    pending,      \* confirmations the running sweep has still to ask for
    ran,          \* the sweeps main has called so far, in order
    gate,         \* the last call of _ask_user: prompted, response, approved
    usage,        \* the "No action selected" message has been printed
    exit_status,  \* how the process has ended, "-" while it runs
    config_file,  \* the lines of the configuration file, or NotFound
    config        \* self.config

\* The state of main and of the confirmation gate, and of the configuration.
main_vars == <<args, args_target_dir, mpc, sweep, pending, ran, gate, usage,
               exit_status>>
config_vars == <<config_file, config>>

vars == <<fs, dirs, source_dirs, args_yes, auto_mode, x_index, pc, src_i,
          files, last, second, faulted, fs0, main_vars, config_vars>>

\* ------------------------------------------------------------ filesystem
Exists(f, p) == f[p] # NoFile
FilesUnder(f, root) == {p \in Paths : p[1] = root /\ Exists(f, p)}
TargetTree(f) == [p \in {q \in Paths : q[1] = target_dir} |-> f[p]]

\* The paths of the target tree and of the source trees of a command line.
TreePaths(sources) ==
    {p \in Paths : p[1] = target_dir \/ \E i \in 1..Len(sources) : sources[i] = p[1]}

\* hashlib.md5 of a content: distinct contents have distinct digests.
md5(c) == CASE c = "c1" -> "h1" [] c = "c2" -> "h2"
Hashes == {md5(c) : c \in Contents}

\* FileOrganizer._calculate_hash: None when the file cannot be opened.
calculate_hash(f, p) ==
    IF Exists(f, p) /\ f[p].readable THEN md5(f[p].content) ELSE None

\* A move that copies the file and leaves the source where it was.
shutil_move_keeps_source(f, src, dst) == [f EXCEPT ![dst] = f[src]]

\* shutil.move(src, dst) that succeeds: dst is replaced by the file of src
\* (content, times and permissions travel with it), src is gone.
shutil_move(f, src, dst) ==
    [f EXCEPT ![dst] = f[src], ![src] = NoFile]

\* Path.unlink that succeeds.
unlink(f, p) == [f EXCEPT ![p] = NoFile]

\* src_path.relative_to(source_dir), with the fallback src_path.name.
relative_to(p, source_dir) == p[2]

\* self.target_dir / rel_path
dest_path_of(p, source_dir) == <<target_dir, relative_to(p, source_dir)>>


Step(a, s, d, o, m) == [action |-> a, src |-> s, dst |-> d, outcome |-> o, out |-> m]

\* ------------------------------------------------------ confirmation gate
\* FileOrganizer._ask_user.  In auto mode nothing is read; otherwise the
\* prompt is repeated until the answer is one of y/yes, n/no, a/all.
Responses == {"y", "n", "a"}
Answers == IF auto_mode THEN {"-"} ELSE Responses
ask_user(auto, r) == auto \/ r \in {"y", "a"}
\* A mode that lasts for one call only: automatic when this answer is 'all'.
ask_user_mode_per_call(auto, r) == r = "a"
\* self.auto_mode after the call: set by 'all' (line 111), never cleared.
ask_user_mode(auto, r) == auto \/ r = "a"

\* ------------------------------------------------------------- the index
EmptyIndex == [h \in Hashes |-> NoPath]

\* An indexing step that also replaces the entry by a file of equal age.
IndexOne_last_of_equals(f, idx, path) ==
    LET h == calculate_hash(f, path) IN
    IF h = None THEN idx
    ELSE IF idx[h] = NoPath \/ f[path].mtime <= f[idx[h]].mtime
         THEN [idx EXCEPT ![h] = path]
         ELSE idx

\* One iteration of the indexing loop (lines 222-227).
IndexOne(f, idx, path) ==
    LET h == calculate_hash(f, path) IN
    IF h = None THEN idx
    ELSE IF idx[h] = NoPath \/ f[path].mtime < f[idx[h]].mtime
         THEN [idx EXCEPT ![h] = path]
         ELSE idx

RECURSIVE BuildIndex(_, _, _)
BuildIndex(f, idx, order) ==
    IF order = <<>> THEN idx
    ELSE BuildIndex(f, IndexOne(f, idx, Head(order)), Tail(order))

\* The orders in which os.walk may list the files of a directory.
WalkOrders(S) ==
    {o \in [1..Cardinality(S) -> S] : \A i, j \in 1..Cardinality(S) : o[i] = o[j] => i = j}

\* Lines 217-227: index the target directory.
IndexTarget ==
    /\ pc = "start"
    /\ \E order \in WalkOrders(FilesUnder(fs, target_dir)) :
          x_index' = IF target_dir \in dirs
                     THEN BuildIndex(fs, EmptyIndex, order)
                     ELSE EmptyIndex
    /\ pc' = "scan"
    /\ src_i' = 1
    /\ files' = {}
    /\ last' = Step("INDEX", NoPath, NoPath, "-", "Indexing Target Directory...")
    /\ UNCHANGED <<fs, dirs, source_dirs, args_yes, auto_mode, second, faulted, fs0>>
    /\ UNCHANGED <<main_vars, config_vars>>

\* ------------------------------------------------- loop over source_dirs
\* Lines 231-233: a source directory that does not exist.
SourceNotFound ==
    /\ pc = "scan"
    /\ src_i <= Len(source_dirs)
    /\ source_dirs[src_i] \notin dirs
    /\ src_i' = src_i + 1
    /\ last' = Step("WARN", NoPath, NoPath, "-", "Source not found")
    /\ UNCHANGED <<fs, dirs, source_dirs, args_yes, auto_mode, x_index, pc, files,
                   second, faulted, fs0>>
    /\ UNCHANGED <<main_vars, config_vars>>

\* Lines 235-238: os.walk lists the files of the source directory.
ScanSource ==
    /\ pc = "scan"
    /\ src_i <= Len(source_dirs)
    /\ source_dirs[src_i] \in dirs
    /\ LET listing == FilesUnder(fs, source_dirs[src_i]) IN
          /\ files' = listing
          /\ pc' = IF listing = {} THEN "scan" ELSE "walk"
          /\ src_i' = IF listing = {} THEN src_i + 1 ELSE src_i
    /\ last' = Step("SCAN", NoPath, NoPath, "-", "Scanning Source")
    /\ UNCHANGED <<fs, dirs, source_dirs, args_yes, auto_mode, x_index,
                   second, faulted, fs0>>
    /\ UNCHANGED <<main_vars, config_vars>>

\* The end of consolidate_and_dedup: every source directory was considered.
Finish ==
    /\ pc = "scan"
    /\ src_i > Len(source_dirs)
    /\ pc' = "done"
    /\ UNCHANGED <<fs, dirs, source_dirs, args_yes, auto_mode, x_index, src_i,
                   files, last, second, faulted, fs0>>
    /\ UNCHANGED <<main_vars, config_vars>>

\* The file loop goes on with the next file of the listing, or the walk ends.
Visited(s) ==
    /\ files' = files \ {s}
    /\ pc' = IF files \ {s} = {} THEN "scan" ELSE "walk"
    /\ src_i' = IF files \ {s} = {} THEN src_i + 1 ELSE src_i

\* ------------------------------------------------------ the file loop
\* Line 245: the fingerprint is a key of x_index.
in_index(idx, h) == h # None /\ idx[h] # NoPath
\* The age test of line 251 the other way round.
source_is_older_flipped(src_time, dst_time) == src_time > dst_time
\* Line 251: the source is strictly older than the indexed target file.
source_is_older(src_time, dst_time) == src_time < dst_time
\* The age test of line 285 with equal times counted as newer.
source_is_newer_or_equal(src_time, dst_time) == src_time >= dst_time
\* Line 285: the source is strictly newer than the file at the destination.
source_is_newer(src_time, dst_time) == src_time > dst_time
\* A move that forgets to record the destination in the index.
index_update_forgotten(idx, h, dest) == idx
\* Lines 294 and 306: x_index[src_hash] = dest_path
index_update(idx, h, dest) == [idx EXCEPT ![h] = dest]
\* An index assignment placed before the move, so that it survives the OSError.
index_update_before_move(idx, h, dest) == [idx EXCEPT ![h] = dest]
\* Lines 293-297 and 305-309: shutil.move raises OSError, the assignment to
\* x_index that follows it in the try block is not executed.
index_after_failure(idx, h, dest) == idx
\* Lines 292 and 304: dest_path.parent.mkdir(parents=True, exist_ok=True)
mkdir(ds, p) == ds \cup {p[1]}
\* A parent directory made before the confirmation is asked for.
mkdir_before_prompt(ds, p) == ds \cup {p[1]}
\* Lines 302-304: the mkdir is inside the if, a denied move makes no directory.
dirs_when_denied(ds, p) == ds

\* Line 242: no fingerprint, the file is passed over without a word.
Noop(s) ==
    /\ pc = "walk" /\ s \in files
    /\ calculate_hash(fs, s) = None
    /\ Visited(s)
    /\ last' = Step("NOOP", s, NoPath, "-", "")
    /\ UNCHANGED <<fs, dirs, source_dirs, args_yes, auto_mode, x_index,
                   second, faulted, fs0>>
    /\ UNCHANGED <<main_vars, config_vars>>

\* Line 248: existing.stat() on an index entry whose file is gone raises
\* FileNotFoundError outside every try block, which ends the program.
Crash(s) ==
    /\ pc = "walk" /\ s \in files
    /\ LET h == calculate_hash(fs, s) IN
          /\ in_index(x_index, h)
          /\ ~Exists(fs, x_index[h])
          /\ last' = Step("CRASH", s, x_index[h], "-", "FileNotFoundError")
    /\ pc' = "crashed"
    /\ UNCHANGED <<fs, dirs, source_dirs, args_yes, auto_mode, x_index, src_i,
                   files, second, faulted, fs0>>
    /\ UNCHANGED <<main_vars, config_vars>>

\* Lines 251-261: content duplicate, the source is the older copy.
Restore(s) ==
    /\ pc = "walk" /\ s \in files
    /\ LET h == calculate_hash(fs, s)
           existing == x_index[h] IN
          /\ in_index(x_index, h)
          /\ Exists(fs, existing)
          /\ source_is_older(fs[s].mtime, fs[existing].mtime)
          /\ \E r \in Answers :
                /\ auto_mode' = ask_user_mode(auto_mode, r)
                /\ IF ask_user(auto_mode, r)
                   THEN \/ /\ fs' = shutil_move(fs, s, existing)
                           /\ last' = Step("RESTORE", s, existing, "ok",
                                           "Restored original to X.")
                           /\ UNCHANGED faulted
                        \/ /\ fs' = fs
                           /\ last' = Step("RESTORE", s, existing, "failed",
                                           "Move failed")
                           /\ faulted' = args_yes
                   ELSE /\ fs' = fs
                        /\ last' = Step("RESTORE", s, existing, "denied", "")
                        /\ UNCHANGED faulted
    /\ Visited(s)
    /\ UNCHANGED <<dirs, source_dirs, args_yes, x_index, second, fs0>>
    /\ UNCHANGED <<main_vars, config_vars>>

\* Lines 262-268: content duplicate, the source is as old or newer.
Delete(s) ==
    /\ pc = "walk" /\ s \in files
    /\ LET h == calculate_hash(fs, s)
           existing == x_index[h] IN
          /\ in_index(x_index, h)
          /\ Exists(fs, existing)
          /\ ~source_is_older(fs[s].mtime, fs[existing].mtime)
          /\ \E r \in Answers :
                /\ auto_mode' = ask_user_mode(auto_mode, r)
                /\ IF ask_user(auto_mode, r)
                   THEN \/ /\ fs' = unlink(fs, s)
                           /\ last' = Step("DELETE", s, existing, "ok",
                                           "Deleted duplicate.")
                           /\ UNCHANGED faulted
                        \/ /\ fs' = fs
                           /\ last' = Step("DELETE", s, existing, "failed",
                                           "Delete failed")
                           /\ faulted' = args_yes
                   ELSE /\ fs' = fs
                        /\ last' = Step("DELETE", s, existing, "denied", "")
                        /\ UNCHANGED faulted
    /\ Visited(s)
    /\ UNCHANGED <<dirs, source_dirs, args_yes, x_index, second, fs0>>
    /\ UNCHANGED <<main_vars, config_vars>>

\* Lines 280-297: name collision, the source is the newer file.
Overwrite(s) ==
    /\ pc = "walk" /\ s \in files
    /\ LET h == calculate_hash(fs, s)
           dest_path == dest_path_of(s, source_dirs[src_i]) IN
          /\ h # None
          /\ ~in_index(x_index, h)
          /\ Exists(fs, dest_path)
          /\ source_is_newer(fs[s].mtime, fs[dest_path].mtime)
          /\ \E r \in Answers :
                /\ auto_mode' = ask_user_mode(auto_mode, r)
                /\ IF ask_user(auto_mode, r)
                   THEN \/ /\ fs' = shutil_move(fs, s, dest_path)
                           /\ x_index' = index_update(x_index, h, dest_path)
                           /\ last' = Step("OVERWRITE", s, dest_path, "ok",
                                           "Updated file.")
                           /\ UNCHANGED faulted
                        \/ /\ fs' = fs
                           /\ x_index' = index_after_failure(x_index, h, dest_path)
                           /\ last' = Step("OVERWRITE", s, dest_path, "failed",
                                           "Overwrite failed")
                           /\ faulted' = args_yes
                   ELSE /\ fs' = fs
                        /\ x_index' = x_index
                        /\ last' = Step("OVERWRITE", s, dest_path, "denied", "")
                        /\ UNCHANGED faulted
    /\ Visited(s)
    /\ UNCHANGED <<dirs, source_dirs, args_yes, second, fs0>>
    /\ UNCHANGED <<main_vars, config_vars>>

\* Lines 298-299: name collision, the source is as old or older.
Skip(s) ==
    /\ pc = "walk" /\ s \in files
    /\ LET h == calculate_hash(fs, s)
           dest_path == dest_path_of(s, source_dirs[src_i]) IN
          /\ h # None
          /\ ~in_index(x_index, h)
          /\ Exists(fs, dest_path)
          /\ ~source_is_newer(fs[s].mtime, fs[dest_path].mtime)
          /\ last' = Step("SKIP", s, dest_path, "-", "Skipping older/same version")
    /\ Visited(s)
    /\ UNCHANGED <<fs, dirs, source_dirs, args_yes, auto_mode, x_index,
                   second, faulted, fs0>>
    /\ UNCHANGED <<main_vars, config_vars>>

\* Lines 300-309: unique content, nothing at the destination.
MoveUnique(s) ==
    /\ pc = "walk" /\ s \in files
    /\ LET h == calculate_hash(fs, s)
           dest_path == dest_path_of(s, source_dirs[src_i]) IN
          /\ h # None
          /\ ~in_index(x_index, h)
          /\ ~Exists(fs, dest_path)
          /\ \E r \in Answers :
                /\ auto_mode' = ask_user_mode(auto_mode, r)
                /\ IF ask_user(auto_mode, r)
                   THEN \/ /\ dirs' = mkdir(dirs, dest_path)
                           /\ fs' = shutil_move(fs, s, dest_path)
                           /\ x_index' = index_update(x_index, h, dest_path)
                           /\ last' = Step("MOVE", s, dest_path, "ok", "Moved.")
                           /\ UNCHANGED faulted
                        \/ /\ \E d \in {dirs, mkdir(dirs, dest_path)} : dirs' = d
                           /\ fs' = fs
                           /\ x_index' = index_after_failure(x_index, h, dest_path)
                           /\ last' = Step("MOVE", s, dest_path, "failed",
                                           "Move failed")
                           /\ faulted' = args_yes
                   ELSE /\ fs' = fs
                        /\ dirs' = dirs_when_denied(dirs, dest_path)
                        /\ x_index' = x_index
                        /\ last' = Step("MOVE", s, dest_path, "denied", "")
                        /\ UNCHANGED faulted
    /\ Visited(s)
    /\ UNCHANGED <<source_dirs, args_yes, second, fs0>>
    /\ UNCHANGED <<main_vars, config_vars>>

\* The program is started again with the same command line, nothing else
\* having touched the trees: the second of two --yes runs in which no move
\* or delete failed.  (A second run after any other first run starts from
\* trees that Init already covers.)
Rerun ==
    /\ pc = "done"
    /\ ~second
    /\ args_yes
    /\ ~faulted
    /\ second' = TRUE
    /\ pc' = "start"
    /\ auto_mode' = args_yes
    /\ x_index' = EmptyIndex
    /\ src_i' = 1
    /\ files' = {}
    /\ last' = NoStep
    /\ UNCHANGED <<fs, dirs, source_dirs, args_yes, faulted, fs0>>
    /\ UNCHANGED <<main_vars, config_vars>>

\* ------------------------------------------------------ the configuration
\* A configuration file is found or not, and has lines.  A line after
\* strip(): its key (the text before the first '=', "#" for a comment or
\* blank line) and its value with the quotes stripped, a sequence of
\* characters.
\* Lines 61-68: neither the given path nor ./.clean_files exists.
NotFound == [found |-> FALSE, lines |-> <<>>]
ConfigKeys == {"TMP_FILES", "TRICKY_LETTERS", "TRICKY_LETTER_SUBSTITUTE",
               "SUGGESTED_ACCESS", "#"}
ConfigValues == {<<"7", "5">>, <<"8">>, <<":", " ">>, <<>>}
ConfigLines == [key : ConfigKeys, val : ConfigValues]
ConfigFiles ==
    {NotFound} \cup
    {[found |-> TRUE, lines |-> l] :
        l \in UNION {[1..n -> ConfigLines] : n \in 0..MaxLines}}

\* Lines 51-56: the built-in settings (0o644 = 420).
defaults ==
    [temp_ext |-> <<<<".", "t", "m", "p">>, <<".", "b", "a", "k">>>>,
     bad_chars |-> <<":", "*", "?", " ">>,
     replace_char |-> <<"_">>,
     perms |-> 420]

\* int(val, 8): the value of a sequence of octal digits, -1 for ValueError
\* (no digit at all, or a character that is no octal digit).
OctalDigit(c) ==
    CASE c = "0" -> 0 [] c = "1" -> 1 [] c = "2" -> 2 [] c = "3" -> 3
      [] c = "4" -> 4 [] c = "5" -> 5 [] c = "6" -> 6 [] c = "7" -> 7
      [] OTHER -> -1
RECURSIVE int8(_, _)
int8(val, acc) ==
    IF val = <<>> THEN acc
    ELSE IF OctalDigit(Head(val)) < 0 THEN -1
         ELSE int8(Tail(val), 8 * acc + OctalDigit(Head(val)))
int_octal(val) == IF val = <<>> THEN -1 ELSE int8(val, 0)

IsSpace(c) == c = " "
NotSpace(c) == c # " "
HasSpace(val) == \E i \in 1..Len(val) : IsSpace(val[i])
\* Line 83: [x.strip() for x in val.split(',')], for a value without a comma.
split_strip(val) == <<SelectSeq(val, NotSpace)>>
\* Lines 85-86: list(val.replace(' ', '')), then ' ' appended if it was there.
tricky_letters(val) ==
    SelectSeq(val, NotSpace) \o (IF HasSpace(val) THEN <<" ">> ELSE <<>>)

\* Lines 75-90: one line of the file applied to settings; ok is FALSE when
\* the line raises (int(val, 8) of a value that is no octal number).
apply_line(settings, line) ==
    CASE line.key = "TMP_FILES" ->
           [ok |-> TRUE,
            settings |-> [settings EXCEPT !.temp_ext = split_strip(line.val)]]
      [] line.key = "TRICKY_LETTERS" ->
           [ok |-> TRUE,
            settings |-> [settings EXCEPT !.bad_chars = tricky_letters(line.val)]]
      [] line.key = "TRICKY_LETTER_SUBSTITUTE" ->
           [ok |-> TRUE,
            settings |-> [settings EXCEPT !.replace_char = line.val]]
      [] line.key = "SUGGESTED_ACCESS" ->
           IF int_octal(line.val) < 0
           THEN [ok |-> FALSE, settings |-> settings]
           ELSE [ok |-> TRUE,
                 settings |-> [settings EXCEPT !.perms = int_octal(line.val)]]
      [] OTHER -> [ok |-> TRUE, settings |-> settings]

\* Lines 74-90: the loop over the lines, stopped by the first line that raises.
RECURSIVE read_lines(_, _)
read_lines(settings, lines) ==
    IF lines = <<>> THEN [ok |-> TRUE, settings |-> settings]
    ELSE LET r == apply_line(settings, Head(lines)) IN
         IF r.ok THEN read_lines(r.settings, Tail(lines)) ELSE r

\* A handler that returns what the lines before the bad one have set.
settings_kept_on_error(builtin, partial) == partial
\* Lines 92-94: except Exception: return defaults.
settings_on_error(builtin, partial) == builtin

\* FileOrganizer._load_config.
load_config(file) ==
    IF ~file.found THEN defaults
    ELSE LET r == read_lines(defaults, file.lines) IN
         IF r.ok THEN r.settings ELSE settings_on_error(defaults, r.settings)

\* ------------------------------------------------------------------- main
Flags == {"duplicates", "empty", "temporary", "sanitize", "permissions", "all"}
Sweeps == {"remove_empty_and_temp", "sanitize_filenames", "fix_permissions",
           "consolidate_and_dedup"}
\* The statements of main from line 332 on, in the order of the source.
Sites == <<"all", "validate", "init", "empty", "temporary", "sanitize",
           "permissions", "duplicates", "none", "end">>
After(site) == Sites[(CHOOSE i \in 1..Len(Sites) : Sites[i] = site) + 1]

NoRequest == [prompted |-> FALSE, response |-> "-", approved |-> FALSE]
\* One call of _ask_user in mode auto that reads the answer r.
Request(auto, r) ==
    [prompted |-> ~auto, response |-> r, approved |-> ask_user(auto, r)]

\* Lines 332-333: --all selects every sweep.
SelectAll ==
    /\ mpc = "all"
    /\ args' = IF args.all
               THEN [f \in Flags |-> TRUE]
               ELSE args
    /\ mpc' = After(mpc)
    /\ UNCHANGED <<fs, dirs, source_dirs, args_yes, auto_mode, x_index, pc, src_i,
                   files, last, second, faulted, fs0>>
    /\ UNCHANGED <<args_target_dir, sweep, pending, ran, gate, usage, exit_status>>
    /\ UNCHANGED config_vars

\* Lines 336-340: an empty target_dir prints the help and exits with status 1.
ValidateInputs ==
    /\ mpc = "validate"
    /\ IF args_target_dir = ""
       THEN /\ exit_status' = "1"
            /\ mpc' = "end"
       ELSE /\ exit_status' = exit_status
            /\ mpc' = After(mpc)
    /\ UNCHANGED <<fs, dirs, source_dirs, args_yes, auto_mode, x_index, pc, src_i,
                   files, last, second, faulted, fs0>>
    /\ UNCHANGED <<args, args_target_dir, sweep, pending, ran, gate, usage>>
    /\ UNCHANGED config_vars

\* Line 343 and lines 33-44: the organizer is constructed.
Construct ==
    /\ mpc = "init"
    /\ auto_mode' = args_yes
    /\ config' = load_config(config_file)
    /\ mpc' = After(mpc)
    /\ UNCHANGED <<fs, dirs, source_dirs, args_yes, x_index, pc, src_i,
                   files, last, second, faulted, fs0>>
    /\ UNCHANGED <<args, args_target_dir, sweep, pending, ran, gate, usage,
                   exit_status>>
    /\ UNCHANGED config_file

\* An if statement of lines 346-358: the sweep is called when the condition
\* holds, and main goes on with the next statement when it does not.  The
\* files of the trees decide how many confirmations the sweep asks for.
CallIf(condition, method) ==
    /\ sweep = "-"
    /\ IF condition
       THEN /\ sweep' = method
            /\ ran' = Append(ran, method)
            /\ \E n \in 0..MaxRequests : pending' = n
            /\ mpc' = mpc
       ELSE /\ mpc' = After(mpc)
            /\ UNCHANGED <<sweep, ran, pending>>
    /\ UNCHANGED <<fs, dirs, source_dirs, args_yes, auto_mode, x_index, pc, src_i,
                   files, last, second, faulted, fs0>>
    /\ UNCHANGED <<args, args_target_dir, gate, usage, exit_status>>
    /\ UNCHANGED config_vars

\* Lines 346-347.
RunEmpty == mpc = "empty" /\ CallIf(args.empty, "remove_empty_and_temp")
\* A test of the temporary flag alone.
temporary_selected(a) == a.temporary
\* Line 348: args.temporary and not args.empty.
temporary_without_empty(a) == a.temporary /\ ~a.empty
\* Lines 348-349.
RunTemporary ==
    mpc = "temporary"
    /\ CallIf(temporary_without_empty(args), "remove_empty_and_temp")
\* Lines 351-352.
RunSanitize == mpc = "sanitize" /\ CallIf(args.sanitize, "sanitize_filenames")
\* Lines 354-355.
RunPermissions == mpc = "permissions" /\ CallIf(args.permissions, "fix_permissions")
\* Lines 357-358.
RunDuplicates == mpc = "duplicates" /\ CallIf(args.duplicates, "consolidate_and_dedup")

\* A sweep asks for a confirmation (lines 145, 152, 180, 201, 256, 263, 290,
\* 302): one call of _ask_user, lines 96-113.
AskUser ==
    /\ sweep # "-"
    /\ mpc # "end"
    /\ pending > 0
    /\ \E r \in Answers :
          /\ gate' = Request(auto_mode, r)
          /\ auto_mode' = ask_user_mode(auto_mode, r)
    /\ pending' = pending - 1
    /\ UNCHANGED <<fs, dirs, source_dirs, args_yes, x_index, pc, src_i,
                   files, last, second, faulted, fs0>>
    /\ UNCHANGED <<args, args_target_dir, mpc, sweep, ran, usage, exit_status>>
    /\ UNCHANGED config_vars

\* The sweep has visited every file and returns to main.
Return ==
    /\ sweep # "-"
    /\ mpc # "end"
    /\ pending = 0
    /\ sweep' = "-"
    /\ mpc' = After(mpc)
    /\ UNCHANGED <<fs, dirs, source_dirs, args_yes, auto_mode, x_index, pc, src_i,
                   files, last, second, faulted, fs0>>
    /\ UNCHANGED <<args, args_target_dir, pending, ran, gate, usage, exit_status>>
    /\ UNCHANGED config_vars

\* Line 248: the FileNotFoundError of existing.stat() is caught nowhere, the
\* process ends with a traceback.
ConsolidateRaises ==
    /\ sweep = "consolidate_and_dedup"
    /\ mpc # "end"
    /\ exit_status' = "Traceback"
    /\ mpc' = "end"
    /\ UNCHANGED <<fs, dirs, source_dirs, args_yes, auto_mode, x_index, pc, src_i,
                   files, last, second, faulted, fs0>>
    /\ UNCHANGED <<args, args_target_dir, sweep, pending, ran, gate, usage>>
    /\ UNCHANGED config_vars

\* Lines 360-362: the message for a command line that selects nothing.
NoActionSelected ==
    /\ mpc = "none"
    /\ usage' = ~(\E f \in Flags \ {"all"} : args[f])
    /\ exit_status' = "0"
    /\ mpc' = "end"
    /\ UNCHANGED <<fs, dirs, source_dirs, args_yes, auto_mode, x_index, pc, src_i,
                   files, last, second, faulted, fs0>>
    /\ UNCHANGED <<args, args_target_dir, sweep, pending, ran, gate>>
    /\ UNCHANGED config_vars

\* ---------------------------------------------------------- specification
\* The trees before the first run: at most MaxFiles files, of which at most
\* one cannot be opened, all in the trees of the command line; a
\* root directory exists when it holds a file, and the target directory is
\* created by the first move into it.
\* main has called consolidate_and_dedup (line 358, -d on the command line).
InConsolidation ==
    /\ args = [f \in Flags |-> f = "duplicates"]
    /\ args_target_dir = target_dir
    /\ mpc = "duplicates"
    /\ sweep = "consolidate_and_dedup"
    /\ pending = 0
    /\ ran = <<"consolidate_and_dedup">>
    /\ gate = NoRequest
    /\ usage = FALSE
    /\ exit_status = "-"
\* Lines 66-68: no configuration file, the settings are the defaults.
NoConfigFile ==
    /\ config_file = NotFound
    /\ config = defaults

Init ==
    /\ source_dirs \in SourceLists
    /\ \E S \in SUBSET TreePaths(source_dirs) :
          /\ Cardinality(S) <= MaxFiles
          /\ \E g \in [S -> Files] :
                /\ \A p, q \in S : (~g[p].readable /\ ~g[q].readable) => p = q
                /\ fs = [p \in Paths |-> IF p \in S THEN g[p] ELSE NoFile]
    /\ dirs = {r \in Roots : FilesUnder(fs, r) # {}}
    /\ args_yes \in BOOLEAN
    /\ auto_mode = args_yes
    /\ x_index = EmptyIndex
    /\ pc = "start"
    /\ src_i = 1
    /\ files = {}
    /\ last = NoStep
    /\ second = FALSE
    /\ faulted = FALSE
    /\ fs0 = fs
    /\ InConsolidation
    /\ NoConfigFile

Next ==
    \/ IndexTarget
    \/ SourceNotFound
    \/ ScanSource
    \/ Finish
    \/ Rerun
    \/ \E s \in Paths :
          \/ Noop(s)
          \/ Crash(s)
          \/ Restore(s)
          \/ Delete(s)
          \/ Overwrite(s)
          \/ Skip(s)
          \/ MoveUnique(s)

Spec == Init /\ [][Next]_vars

\* The trees are empty and consolidate_and_dedup has not been entered.
EmptyTrees ==
    /\ fs = [p \in Paths |-> NoFile]
    /\ dirs = {}
    /\ source_dirs = <<"Y1", "Y2">>
    /\ x_index = EmptyIndex
    /\ pc = "start"
    /\ src_i = 1
    /\ files = {}
    /\ last = NoStep
    /\ second = FALSE
    /\ faulted = FALSE
    /\ fs0 = fs

\* main from line 332 on, for every command line that parse_args accepts.
MainInit ==
    /\ args \in [Flags -> BOOLEAN]
    /\ args_target_dir \in {"", target_dir}
    /\ args_yes \in BOOLEAN
    /\ auto_mode = args_yes
    /\ mpc = "all"
    /\ sweep = "-"
    /\ pending = 0
    /\ ran = <<>>
    /\ gate = NoRequest
    /\ usage = FALSE
    /\ exit_status = "-"
    /\ NoConfigFile
    /\ EmptyTrees

MainNext ==
    \/ SelectAll
    \/ ValidateInputs
    \/ Construct
    \/ RunEmpty
    \/ RunTemporary
    \/ RunSanitize
    \/ RunPermissions
    \/ RunDuplicates
    \/ AskUser
    \/ Return
    \/ ConsolidateRaises
    \/ NoActionSelected

MainSpec == MainInit /\ [][MainNext]_vars

\* FileOrganizer.__init__ for every configuration file of at most MaxLines
\* lines.
ConfigInit ==
    /\ config_file \in ConfigFiles
    /\ config = defaults
    /\ args = [f \in Flags |-> f = "duplicates"]
    /\ args_target_dir = target_dir
    /\ args_yes \in BOOLEAN
    /\ auto_mode = FALSE
    /\ mpc = "init"
    /\ sweep = "-"
    /\ pending = 0
    /\ ran = <<>>
    /\ gate = NoRequest
    /\ usage = FALSE
    /\ exit_status = "-"
    /\ EmptyTrees

ConfigNext == Construct

ConfigSpec == ConfigInit /\ [][ConfigNext]_vars

TypeOK ==
    /\ fs \in [Paths -> Files \cup {NoFile}]
    /\ dirs \subseteq Roots
    /\ x_index \in [Hashes -> Paths \cup {NoPath}]
    /\ pc \in {"start", "scan", "walk", "done", "crashed"}
    /\ files \subseteq Paths

\* ------------------------------------------------------------ the claims
\* The step from the current state visits the source file s of the walk.
Visits(s) == pc = "walk" /\ s \in files /\ s \notin files'
\* The step was not held back: the gate did not deny it and the operating
\* system did not refuse the move or delete.
Carried == last'.outcome \notin {"denied", "failed"}
\* The source tree being walked, and the place of s re-rooted under the target.
Mirrored(s) == <<target_dir, s[2]>>
\* The fingerprint of s is a key of the index, and the indexed file is there.
Duplicate(s) ==
    /\ calculate_hash(fs, s) # None
    /\ x_index[calculate_hash(fs, s)] # NoPath
    /\ Exists(fs, x_index[calculate_hash(fs, s)])
\* The fingerprint of s is no key of the index.
Unique(s) ==
    /\ calculate_hash(fs, s) # None
    /\ x_index[calculate_hash(fs, s)] = NoPath

C2_DeleteNewer ==
    [][\A s \in Paths :
          (/\ Visits(s)
           /\ Duplicate(s)
           /\ fs[s].mtime >= fs[x_index[calculate_hash(fs, s)]].mtime
           /\ Carried)
          => /\ ~Exists(fs', s)
             /\ fs'[x_index[calculate_hash(fs, s)]] = fs[x_index[calculate_hash(fs, s)]]
             /\ x_index' = x_index]_vars

\* C3: a file with a new fingerprint whose mirrored path holds a strictly
\* older file overwrites it when approved: the destination ends with the
\* source's content and time, the source path is gone, and the index entry of
\* the source's fingerprint is the destination.
C3_OverwriteNewer ==
    [][\A s \in Paths :
          (/\ Visits(s)
           /\ Unique(s)
           /\ Exists(fs, Mirrored(s))
           /\ fs[s].mtime > fs[Mirrored(s)].mtime
           /\ Carried)
          => /\ fs'[Mirrored(s)].content = fs[s].content
             /\ fs'[Mirrored(s)].mtime = fs[s].mtime
             /\ ~Exists(fs', s)
             /\ x_index'[calculate_hash(fs, s)] = Mirrored(s)]_vars

\* C3 witness: a newer source file has replaced the older file of its name.
C3_Witness ==
    /\ last.action = "OVERWRITE" /\ last.outcome = "ok"
    /\ ~Exists(fs, last.src)
    /\ x_index[calculate_hash(fs, last.dst)] = last.dst

\* C4: a file with a new fingerprint whose mirrored path holds a file that is
\* as new or newer changes nothing: no confirmation is asked for, the
\* destination, the source and the index are as before.
C4_SkipOlder ==
    [][\A s \in Paths :
          (/\ Visits(s)
           /\ Unique(s)
           /\ Exists(fs, Mirrored(s))
           /\ fs[s].mtime <= fs[Mirrored(s)].mtime)
          => /\ fs' = fs
             /\ x_index' = x_index
             /\ auto_mode' = auto_mode
             /\ last'.action = "SKIP"
             /\ last'.outcome = "-"]_vars

\* C4 witness: a source file was passed over for the file of its name, and
\* both are still there.
C4_Witness ==
    /\ last.action = "SKIP"
    /\ Exists(fs, last.src)
    /\ Exists(fs, last.dst)
    /\ last.src # last.dst

\* C5: a file with a new fingerprint whose mirrored path is free is moved
\* there when approved: the target holds it at the mirrored path, the source
\* path is gone, and its fingerprint is indexed at the destination.
C5_MoveUnique ==
    [][\A s \in Paths :
          (/\ Visits(s)
           /\ Unique(s)
           /\ ~Exists(fs, Mirrored(s))
           /\ Carried)
          => /\ fs'[Mirrored(s)] = fs[s]
             /\ ~Exists(fs', s)
             /\ x_index'[calculate_hash(fs, s)] = Mirrored(s)]_vars

\* C5 witness: a unique file has arrived at its mirrored path.
C5_Witness ==
    /\ last.action = "MOVE" /\ last.outcome = "ok"
    /\ ~Exists(fs, last.src)
    /\ last.dst = Mirrored(last.src)
    /\ Exists(fs, last.dst)

\* C6: a source file without a fingerprint is never deleted or moved: the
\* step changes neither the filesystem nor the index, a diagnostic is logged
\* for it, and the run goes on.
C6_UnreadableLogged ==
    [][\A s \in Paths :
          (Visits(s) /\ calculate_hash(fs, s) = None)
          => /\ fs' = fs
             /\ x_index' = x_index
             /\ pc' \in {"walk", "scan"}
             /\ last'.out # ""]_vars

\* ------------------------------------------------ claims about whole runs
\* The first invocation has ended, it was started with --yes (every action
\* approved) and no move or delete failed.
CompleteAutoRun == pc = "done" /\ ~second /\ args_yes /\ ~faulted
\* No source directory of the command line is the target directory.
SourcesApart == \A i \in 1..Len(source_dirs) : source_dirs[i] # target_dir
\* A file that was there and readable when the program was started.
Initially(p) == Exists(fs0, p) /\ fs0[p].readable
\* The files that hold content c now, anywhere in the trees.
CopiesOf(c) == {p \in Paths : Exists(fs, p) /\ fs[p].content = c}
Earlier(t, u) == IF t < u THEN t ELSE u

\* C7: of two files with the same content and different times, a complete
\* auto-approved run leaves exactly one copy, and it carries the earlier time.
\* Stated for the pairs the policy names: A in the target tree, B in a source
\* tree, no third copy of the content.
C7_OneOldestCopy ==
    (CompleteAutoRun /\ SourcesApart) =>
    \A A, B \in Paths :
        (/\ A[1] = target_dir /\ B[1] # target_dir
         /\ Initially(A) /\ Initially(B)
         /\ fs0[A].content = fs0[B].content
         /\ fs0[A].mtime # fs0[B].mtime
         /\ \A p \in Paths \ {A, B} : fs0[p].content # fs0[A].content)
        => /\ Cardinality(CopiesOf(fs0[A].content)) = 1
           /\ \A p \in CopiesOf(fs0[A].content) :
                 fs[p].mtime = Earlier(fs0[A].mtime, fs0[B].mtime)

\* C8: of two files with the same relative name and different content, a
\* complete auto-approved run leaves the later one at that path of the target
\* tree, whatever other source files the run has processed.  Stated for A in
\* the target tree and a later B in a source tree whose content no other file
\* has.
C8_LaterVersionAtPath ==
    (CompleteAutoRun /\ SourcesApart) =>
    \A A, B \in Paths :
        (/\ A[1] = target_dir /\ B[1] # target_dir /\ A[2] = B[2]
         /\ Initially(A) /\ Initially(B)
         /\ fs0[A].content # fs0[B].content
         /\ fs0[A].mtime < fs0[B].mtime
         /\ \A p \in Paths \ {B} : fs0[p].content # fs0[B].content)
        => fs[A].content = fs0[B].content

\* Every file of the initial trees can be opened.
AllReadable == \A p \in Paths : Exists(fs0, p) => fs0[p].readable

\* C9: a second auto-approved run over the trees the first one left changes
\* nothing in the target tree and performs only NOOPs and SKIPs (no move or
\* delete failing in either run).
IdleSteps == {"-", "INDEX", "SCAN", "WARN", "NOOP", "SKIP"}
C9_SecondRunIdle ==
    [][(second /\ SourcesApart /\ AllReadable /\ ~faulted')
          => /\ TargetTree(fs') = TargetTree(fs)
             /\ last'.action \in IdleSteps]_vars

\* C10: every entry of the index refers to a file that exists in the target
\* tree, in every state of a run (the index is a mapping, so it holds at most
\* one entry per fingerprint).
C10_IndexEntriesExist ==
    \A h \in Hashes :
        x_index[h] # NoPath =>
            /\ x_index[h][1] = target_dir
            /\ Exists(fs, x_index[h])

\* The same with the target directory kept out of the source directories.
IndexEntriesExistApart == SourcesApart => C10_IndexEntriesExist

\* C11: a move or delete that raises OSError is not fatal: the failure is
\* logged, the step leaves the index as it was, and the walk goes on with the
\* next file of the listing (or with the next source directory).
C11_FailureNotFatal ==
    [][\A s \in Paths :
          (Visits(s) /\ last'.outcome = "failed")
          => /\ last'.out # ""
             /\ x_index' = x_index
             /\ files' = files \ {s}
             /\ pc' = IF files' = {} THEN "scan" ELSE "walk"]_vars

\* C11 witness: a move or delete of this run has failed, and a later file of
\* the run was moved, restored, overwritten or deleted all the same.
C11_Witness ==
    /\ faulted
    /\ last.outcome = "ok"
    /\ ~Exists(fs, last.src)

\* ------------------------------------------- claims about the gate and main
\* The step from the current state is one call of _ask_user by a sweep.
Asks == sweep # "-" /\ pending > 0 /\ pending' = pending - 1

\* C12: the confirmation gate has the two states INTERACTIVE (auto_mode
\* false) and AUTO (auto_mode true).  In AUTO a request is approved and
\* nothing is read; in INTERACTIVE 'y' approves, 'n' denies, and 'a' approves
\* and switches to AUTO; no step of main or of any sweep leaves AUTO, and only
\* a call of the gate changes the mode.
C12_GateMachine ==
    [][/\ auto_mode => auto_mode'
       /\ ~Asks => auto_mode' = auto_mode
       /\ Asks =>
            IF auto_mode
            THEN gate'.approved /\ ~gate'.prompted
            ELSE /\ gate'.prompted
                 /\ gate'.response \in Responses
                 /\ gate'.response = "y" => (gate'.approved /\ ~auto_mode')
                 /\ gate'.response = "n" => (~gate'.approved /\ ~auto_mode')
                 /\ gate'.response = "a" => (gate'.approved /\ auto_mode')]_vars

\* C12 witness: the run was started without --yes, an 'all' has switched the
\* gate to AUTO, and in a later sweep a request was approved unprompted.
C12_Witness ==
    /\ ~args_yes
    /\ auto_mode
    /\ Len(ran) >= 2
    /\ pending = 0
    /\ gate.approved /\ ~gate.prompted

\* --------------------------------------------- claims about the configuration
OctalDigits == {"0", "1", "2", "3", "4", "5", "6", "7"}
\* The line assigns a permission value that is no octal number.
BadPermission(line) ==
    /\ line.key = "SUGGESTED_ACCESS"
    /\ \/ line.val = <<>>
       \/ \E j \in 1..Len(line.val) : line.val[j] \notin OctalDigits
\* The organizer has been constructed.
Constructed == mpc # "init" /\ mpc # "all" /\ mpc # "validate"

\* C13: when the configuration file is found and one of its lines fails to
\* parse (a permission value that is not octal), self.config is exactly the
\* built-in defaults, whatever the lines before it have set.
C13_ParseFailureDefaults ==
    (/\ Constructed
     /\ config_file.found
     /\ \E i \in 1..Len(config_file.lines) : BadPermission(config_file.lines[i]))
    => config = defaults

\* C13 witness: a valid line that replaces the substitute character is
\* followed by a permission line that is no octal number, and the settings
\* are the defaults.
C13_Witness ==
    /\ Constructed
    /\ config_file.found
    /\ Len(config_file.lines) >= 2
    /\ config_file.lines[1] = [key |-> "TRICKY_LETTER_SUBSTITUTE", val |-> <<"7", "5">>]
    /\ BadPermission(config_file.lines[2])
    /\ config = defaults

\* ------------------------------------------------------ claims about main
\* The order in which the claim lists the sweeps.
SweepOrder == <<"remove_empty_and_temp", "sanitize_filenames", "fix_permissions",
                "consolidate_and_dedup">>
Rank(method) == CHOOSE i \in 1..Len(SweepOrder) : SweepOrder[i] = method
Called(method) == \E i \in 1..Len(ran) : ran[i] = method
\* main has ended for a command line that names a target directory.
Ended == mpc = "end" /\ args_target_dir # ""
\* No selector flag was given (run-all sets the five others, lines 332-333).
NothingSelected == \A f \in Flags : ~args[f]

\* C14: for every combination of the selector flags, the sweeps main calls
\* are called in the order empty/temporary removal, sanitization, permission
\* fix, consolidation, each at most once; when main has ended, each sweep was
\* called exactly when its flag or run-all was given, the empty/temporary
\* sweep exactly when remove-empty, remove-temporary or run-all was given;
\* with no flag no sweep is called, the usage message is printed and the
\* exit status is 0.
C14_SweepOrder ==
    /\ \A i, j \in 1..Len(ran) : i < j => Rank(ran[i]) < Rank(ran[j])
    /\ usage => (NothingSelected /\ ran = <<>>)
    /\ Ended =>
         /\ Called("remove_empty_and_temp")
               <=> (args.empty \/ args.temporary \/ args.all)
         /\ Called("sanitize_filenames") <=> (args.sanitize \/ args.all)
         /\ Called("fix_permissions") <=> (args.permissions \/ args.all)
         /\ Called("consolidate_and_dedup") <=> (args.duplicates \/ args.all)
         /\ NothingSelected => (ran = <<>> /\ usage /\ exit_status = "0")

\* C14 witness: -e -t -d was given; the empty/temporary sweep and the
\* consolidation were each called once, in this order, and main has ended.
C14_Witness ==
    /\ Ended
    /\ args.empty /\ args.temporary /\ args.duplicates /\ ~args.all
    /\ ran = <<"remove_empty_and_temp", "consolidate_and_dedup">>
    /\ ~usage
    /\ exit_status = "0"

\* After a command line without any selector flag the message is printed.
UsagePrinted ==
    /\ Ended /\ NothingSelected /\ usage /\ ran = <<>> /\ exit_status = "0"

\* ------------------------------------------- claims about the index in a run
\* C15: in every state of the walk, every entry of the index, fingerprint h
\* at path p, refers to a file whose content has fingerprint h (stated with
\* the target directory kept out of the source directories).
C15_IndexNeverStale ==
    SourcesApart =>
    \A h \in Hashes :
        x_index[h] # NoPath =>
            /\ Exists(fs, x_index[h])
            /\ md5(fs[x_index[h]].content) = h

\* The paths of the target tree that hold a file.
TargetPaths(f) == FilesUnder(f, target_dir)
\* The step from the current state has moved s to its mirrored path, as a
\* unique file or over an older file of its name.
Placed(s) ==
    /\ Visits(s)
    /\ last'.action \in {"MOVE", "OVERWRITE"}
    /\ last'.outcome = "ok"

\* C16: a successful move or overwrite of a source file with fingerprint h
\* happens only while h is no key of the index and makes h a key; a key
\* stays a key for the rest of the run; and a source file whose fingerprint
\* is a key is handled as a content duplicate (restore or delete), which
\* adds no path to the target tree.  Hence one run places at most one file
\* per fingerprint.
C16_OnePlacementPerFingerprint ==
    [][/\ \A s \in Paths :
             Placed(s) => /\ x_index[calculate_hash(fs, s)] = NoPath
                          /\ x_index'[calculate_hash(fs, s)] # NoPath
       /\ second' = second =>
             \A h \in Hashes : x_index[h] # NoPath => x_index'[h] # NoPath
       /\ \A s \in Paths :
             (Visits(s) /\ in_index(x_index, calculate_hash(fs, s)))
             => /\ last'.action \in {"RESTORE", "DELETE"}
                /\ TargetPaths(fs') \subseteq TargetPaths(fs)]_vars

\* C16 witness: a source file was deleted as the duplicate of a target file
\* that this run has itself moved into the target tree.
C16_Witness ==
    /\ ~second
    /\ last.action = "DELETE" /\ last.outcome = "ok"
    /\ last.dst[1] = target_dir
    /\ ~Exists(fs0, last.dst)
    /\ Exists(fs, last.dst)
    /\ last.src[1] # target_dir

\* ------------------------------------------------ claims about the indexing
\* The positions of the walk order o at which a file with fingerprint h is
\* visited.
VisitsOf(f, o, h) == {i \in 1..Len(o) : calculate_hash(f, o[i]) = h}
\* The index the claim describes for the walk order o: per fingerprint the
\* oldest file, and of several oldest ones the one visited first.
OldestFirstVisited(f, o) ==
    [h \in Hashes |->
        IF VisitsOf(f, o, h) = {} THEN NoPath
        ELSE o[CHOOSE i \in VisitsOf(f, o, h) :
                 \A j \in VisitsOf(f, o, h) :
                    \/ f[o[i]].mtime < f[o[j]].mtime
                    \/ f[o[i]].mtime = f[o[j]].mtime /\ i <= j]]

\* C17: for every order in which the walk may visit the files of the target
\* tree, the indexing loop yields, per fingerprint, the oldest file with it
\* and of several oldest ones the first visited; the indexing step sets the
\* index to such a value, and to the empty index when the target directory
\* is missing.
C17_IndexOldestFirst ==
    [][pc = "start" =>
          /\ \A o \in WalkOrders(FilesUnder(fs, target_dir)) :
                BuildIndex(fs, EmptyIndex, o) = OldestFirstVisited(fs, o)
          /\ \E o \in WalkOrders(FilesUnder(fs, target_dir)) :
                x_index' = OldestFirstVisited(fs, o)
          /\ target_dir \notin dirs => x_index' = EmptyIndex]_vars

\* C17 witness: the target tree holds two readable files of equal content
\* and equal age, and the walk that visited b first has indexed b.
C17_Witness ==
    /\ last.action = "INDEX"
    /\ Exists(fs, <<target_dir, "a">>) /\ fs[<<target_dir, "a">>].readable
    /\ fs[<<target_dir, "b">>] = fs[<<target_dir, "a">>]
    /\ x_index[md5(fs[<<target_dir, "b">>].content)] = <<target_dir, "b">>

\* The target directory was missing and the index is empty.
MissingTargetIndexed ==
    /\ last.action = "INDEX" /\ target_dir \notin dirs /\ x_index = EmptyIndex

\* ------------------------------------------------ claims about single steps
\* C18: a step whose action the gate denies changes neither the files nor
\* the directories nor the index, and the walk goes on with the next file.
C18_DeniedChangesNothing ==
    [][\A s \in Paths :
          (Visits(s) /\ last'.outcome = "denied")
          => /\ last'.action \in {"RESTORE", "DELETE", "OVERWRITE", "MOVE"}
             /\ fs' = fs
             /\ dirs' = dirs
             /\ x_index' = x_index
             /\ files' = files \ {s}
             /\ pc' = IF files' = {} THEN "scan" ELSE "walk"]_vars

\* C18 witness: the move of a unique file into a target directory that does
\* not exist yet was denied; the file is where it was and nothing was made.
C18_Witness ==
    /\ last.action = "MOVE" /\ last.outcome = "denied"
    /\ Exists(fs, last.src)
    /\ ~Exists(fs, last.dst)
    /\ target_dir \notin dirs
    /\ fs = fs0

\* The step from the current state deletes s: s is gone and every other path
\* holds what it held.
Deletes(s) ==
    /\ Visits(s)
    /\ Exists(fs, s) /\ ~Exists(fs', s)
    /\ \A q \in Paths \ {s} : fs'[q] = fs[q]

\* C19: a source file is deleted only while another file, in the target
\* tree, holds the same content (stated with the target directory kept out of
\* the source directories).
C19_DeleteOnlyDuplicates ==
    [][\A s \in Paths :
          (SourcesApart /\ Deletes(s))
          => \E p \in Paths \ {s} :
                /\ p[1] = target_dir
                /\ Exists(fs, p)
                /\ fs[p].content = fs[s].content]_vars

\* C20: for every list of source directories, no step of a run removes a
\* path from the target tree: the set of target paths that hold a file only
\* grows.
C20_TargetPathsOnlyGrow ==
    [][TargetPaths(fs) \subseteq TargetPaths(fs')]_vars

\* The same with the target directory kept out of the source directories.
TargetPathsOnlyGrowApart ==
    [][SourcesApart => TargetPaths(fs) \subseteq TargetPaths(fs')]_vars

\* No step of a run leaves the automatic mode.
AutoModeStays == [][auto_mode => auto_mode']_vars

====
